---------------------------- MODULE Spec2Model ----------------------------
(***************************************************************************)
(* FtrackServer (services/processor/processor/ftrack_server.py): the       *)
(* connection lifecycle, the handler load / registration pass and the      *)
(* event-wait loop, as a state machine over caller threads.                *)
(*                                                                         *)
(* Every caller thread is either idle or at a line of run_server,          *)
(* stop_session, set_files or set_handler_paths.  The ftrack_api session   *)
(* and its event hub are external: a session is a record of what the       *)
(* server reads from it (the auto-connect thread, event_hub.connected)     *)
(* and of what connect / disconnect / close do to it.                      *)
(*                                                                         *)
(* create_package.py, which builds the addon package, is a second state    *)
(* machine (PackageSpec) over the files of its output directory.           *)
(***************************************************************************)
EXTENDS Integers, Sequences, FiniteSets, TLC

(***************************************************************************)
(* Bounds of the model.                                                    *)
(***************************************************************************)
\* sessions ever created: by a caller, or by run_server at line 121
MaxConns == 2
\* longest handler path list a caller passes
MaxPaths == 2

Threads == {"t1", "t2"}
ConnIds == 1..MaxConns

\* self.session before run_server ever assigned it: __init__ sets no such
\* attribute, reading it raises AttributeError
Unset == -1
\* self.session = None, line 54
None == 0

VARIABLES
    stopped,        \* self.stopped
    is_running,     \* self.is_running
    handler_paths,  \* self.handler_paths
    session,        \* self.session: Unset, None or a session id
    conns,          \* the sessions: id -> what the server sees of each
    nconn,          \* how many sessions exist
    pc,             \* thread -> the line it is at
    cont,           \* thread -> what follows stop_session in set_handler_paths
    lsession,       \* thread -> run_server's local `session`
    load_files,     \* thread -> run_server's `load_files`
    polled,         \* thread -> run_server slept in the polling loop, line 134
    regs,           \* thread -> set_files' register_functions
    idx,            \* thread -> position of the loop of line 99
    waitOn,         \* thread -> the session whose event_hub.wait() blocks it
    caller,         \* the thread that made the latest call
    method,         \* the method it called
    entry,          \* the server as that call found it
    log,            \* what happened since that call started, in order
    package         \* create_package.py: a run of main() and the files it sees

vars == <<stopped, is_running, handler_paths, session, conns, nconn, pc, cont,
          lsession, load_files, polled, regs, idx, waitOn, caller, method,
          entry, log, package>>

server == <<stopped, is_running, handler_paths, session>>
locals == <<lsession, load_files, polled, regs, idx, waitOn>>
call == <<caller, method, entry>>

(***************************************************************************)
(* The environment set_files reads: os.environ and the plugin files.       *)
(***************************************************************************)
\* os.environ, as far as the path templates name it
Environ == [ROOT |-> "/srv"]

\* a path template as str.format reads it: literal text and {NAME} fields
TemplateParts(template) ==
    CASE template = "/srv/a"     -> << [lit |-> "/srv/a"] >>
      [] template = "{ROOT}/b"   -> << [var |-> "ROOT"], [lit |-> "/b"] >>
      [] template = "{UNSET}/c"  -> << [var |-> "UNSET"], [lit |-> "/c"] >>
      [] OTHER                   -> << [lit |-> template] >>

PathTemplates == {"/srv/a", "{ROOT}/b", "{UNSET}/c"}

\* path.format(**os.environ), line 62: the text with every field replaced,
\* or KeyError when os.environ lacks a field
RECURSIVE FormatParts(_)
FormatParts(parts) ==
    IF parts = << >> THEN [ok |-> TRUE, text |-> ""]
    ELSE LET head == Head(parts)
             rest == FormatParts(Tail(parts))
         IN  IF "var" \in DOMAIN head
             THEN IF head.var \in DOMAIN Environ /\ rest.ok
                  THEN [ok |-> TRUE, text |-> Environ[head.var] \o rest.text]
                  ELSE [ok |-> FALSE, text |-> ""]
             ELSE [ok |-> rest.ok,
                   text |-> IF rest.ok THEN head.lit \o rest.text ELSE ""]

\* the formatted text and nothing in place of a path that does not format
ResolvePathWithoutFallback(path) == FormatParts(TemplateParts(path)).text

\* lines 61-64: the formatted path, the path as given when format raises
ResolvePath(path) ==
    LET formatted == FormatParts(TemplateParts(path))
    IN  IF formatted.ok THEN formatted.text ELSE path

\* the plugin files under a directory, in the order the walk yields them
FilesUnder(dir) ==
    CASE dir = "/srv/a" -> << "/srv/a/broken.py", "/srv/a/action.py",
                              "/srv/a/helper.py" >>
      [] dir = "/srv/b" -> << "/srv/b/register_attr.py", "/srv/b/event.py" >>
      [] OTHER          -> << >>

\* what importing a file gives: "crash" (the import raises), else the
\* module's `register` attribute: "none", "not_function" or "function"
FileKind(file) ==
    CASE file = "/srv/a/broken.py"        -> "crash"
      [] file = "/srv/a/helper.py"        -> "none"
      [] file = "/srv/b/register_attr.py" -> "not_function"
      [] OTHER                            -> "function"

\* lib.modules_from_path(path): the (filepath, module) pairs of the files
\* that imported and the (filepath, exc_info) pairs of those that did not
modules_from_path(path) ==
    LET files == FilesUnder(path)
    IN  [modules |-> SelectSeq(files, LAMBDA f : FileKind(f) # "crash"),
         crashed |-> SelectSeq(files, LAMBDA f : FileKind(f) = "crash")]

\* any attribute named "register", function or not
FindRegisterOfAnyType(file) ==
    IF FileKind(file) \in {"function", "not_function"} THEN file ELSE "<none>"

\* lines 74-81: the module attribute named "register" that is a function
FindRegister(file) ==
    IF FileKind(file) = "function" THEN file ELSE "<none>"

\* one entry of the log: what was done, by which thread, on which file and
\* session, how it ended, and the paths of a load pass
Event(ev, t, file, conn, out, paths) ==
    [ev |-> ev, t |-> t, file |-> file, conn |-> conn, out |-> out,
     paths |-> paths]

\* lines 73-91: the (filepath, register_function) pairs of one path's
\* modules, and a "Missing register method" warning for each other module
RECURSIVE RegisterFunctionsOf(_, _)
RegisterFunctionsOf(t, modules) ==
    IF modules = << >> THEN [register_functions |-> << >>, warnings |-> << >>]
    ELSE LET filepath == Head(modules)
             register_function == FindRegister(filepath)
             rest == RegisterFunctionsOf(t, Tail(modules))
         IN  IF register_function = "<none>"
             THEN [register_functions |-> rest.register_functions,
                   warnings |->
                       << Event("missing_register", t, filepath, None, "", << >>) >>
                       \o rest.warnings]
             ELSE [register_functions |->
                       << [filepath |-> filepath, func |-> register_function] >>
                       \o rest.register_functions,
                   warnings |-> rest.warnings]

\* lines 68-71: a "Filepath load crashed" warning for each file of `crashed`
RECURSIVE CrashWarnings(_, _)
CrashWarnings(t, files) ==
    IF files = << >> THEN << >>
    ELSE << Event("load_crashed", t, Head(files), None, "", << >>) >>
         \o CrashWarnings(t, Tail(files))

\* lines 58-91: the loop over paths; what it appends to register_functions,
\* and the walks it makes (line 67, with the path it walks) and the warnings
\* it logs, in order
RECURSIVE LoadPaths(_, _)
LoadPaths(t, paths) ==
    IF paths = << >> THEN [register_functions |-> << >>, warnings |-> << >>]
    ELSE LET path == ResolvePath(Head(paths))
             found == modules_from_path(path)
             usable == RegisterFunctionsOf(t, found.modules)
             rest  == LoadPaths(t, Tail(paths))
         IN  [register_functions |->
                  usable.register_functions \o rest.register_functions,
              warnings |->
                  << Event("modules_from_path", t, path, None, "", << >>) >>
                  \o CrashWarnings(t, found.crashed) \o usable.warnings
                  \o rest.warnings]

\* what a call of a plugin's register does: it returns, raises an Exception
\* or raises a BaseException that is no Exception (SystemExit,
\* KeyboardInterrupt)
RegisterOutcomes == {"returns", "Exception", "BaseException"}

\* a loop that contains no raise
CaughtByNothing(outcome) == FALSE

\* line 102, `except Exception`: the raises the registration loop contains
CaughtByRegisterLoop(outcome) == outcome = "Exception"

(***************************************************************************)
(* The path lists a caller passes.                                         *)
(***************************************************************************)
RECURSIVE SeqsUpTo(_, _)
SeqsUpTo(S, n) ==
    IF n = 0 THEN {<< >>}
    ELSE LET shorter == SeqsUpTo(S, n - 1)
         IN  shorter \cup {Append(s, x) : s \in shorter, x \in S}

PathLists == SeqsUpTo(PathTemplates, MaxPaths)


(***************************************************************************)
(* Sessions.                                                               *)
(***************************************************************************)
\* a session nobody created yet
NoSession ==
    [auto |-> FALSE, connecting |-> FALSE, connected |-> FALSE,
     closed |-> FALSE]

\* ftrack_api.Session(auto_connect_event_hub=auto): with auto, a background
\* thread is connecting the event hub and _auto_connect_event_hub_thread is set
NewSession(auto, connected) ==
    [auto |-> auto, connecting |-> auto /\ ~connected,
     connected |-> connected, closed |-> FALSE]

\* self.session is a session object
HoldsSession(s) == s \in ConnIds

Did(events) == log \o events

\* The sessions once the server holds `held` and the threads hold `ls` and
\* `wo`.  Of a session nothing refers to any more only `closed` is kept: the
\* server cannot see what else becomes of it.
Settled(cs, held, ls, wo) ==
    [c \in ConnIds |->
        IF c = held \/ \E t \in Threads : ls[t] = c \/ wo[t] = c
        THEN cs[c]
        ELSE [NoSession EXCEPT !.closed = cs[c].closed]]

\* the server as a caller finds it, and the paths and load_files of the call
\* (for run_server and stop_session: self.handler_paths)
Snapshot(paths, lf) ==
    [stopped |-> stopped, is_running |-> is_running, paths |-> paths,
     load_files |-> lf]

\* create_package.py is not run
NoPackage == [line |-> "none"]

\* __init__, lines 44-47: handler_paths is what the caller gave
Init ==
    /\ stopped = TRUE
    /\ is_running = FALSE
    /\ handler_paths \in PathLists
    /\ session = Unset
    /\ conns = [c \in ConnIds |-> NoSession]
    /\ nconn = 0
    /\ pc = [t \in Threads |-> "idle"]
    /\ cont = [t \in Threads |-> "return"]
    /\ lsession = [t \in Threads |-> None]
    /\ load_files = [t \in Threads |-> TRUE]
    /\ polled = [t \in Threads |-> FALSE]
    /\ regs = [t \in Threads |-> << >>]
    /\ idx = [t \in Threads |-> 1]
    /\ waitOn = [t \in Threads |-> None]
    /\ caller = "none"
    /\ method = "none"
    /\ entry = [stopped |-> TRUE, is_running |-> FALSE, paths |-> << >>,
                load_files |-> TRUE]
    /\ log = << >>
    /\ package = NoPackage

\* thread t goes on at `line`
Goto(t, line) == pc' = [pc EXCEPT ![t] = line]

\* the locals of a call that is over
Forget(t) ==
    /\ lsession' = [lsession EXCEPT ![t] = None]
    /\ load_files' = [load_files EXCEPT ![t] = TRUE]
    /\ polled' = [polled EXCEPT ![t] = FALSE]
    /\ regs' = [regs EXCEPT ![t] = << >>]
    /\ idx' = [idx EXCEPT ![t] = 1]
    /\ waitOn' = [waitOn EXCEPT ![t] = None]

\* the call of thread t is over and self.session is left as it is
Leave(t) ==
    /\ Goto(t, "idle")
    /\ Forget(t)
    /\ conns' = Settled(conns, session, lsession', waitOn')

\* the call of thread t returns
Return(t) ==
    /\ Leave(t)
    /\ UNCHANGED log

\* the call of thread t raises e
Raise(t, e) ==
    /\ Leave(t)
    /\ log' = Did(<< Event("raise", t, "", None, e, << >>) >>)

(***************************************************************************)
(* The calls a caller makes.  Callers serialize them (Serialized); a       *)
(* run_server that blocks in event_hub.wait() leaves the other thread free *)
(* to call.                                                                *)
(***************************************************************************)
Serialized(t) == \A u \in Threads \ {t} : pc[u] \in {"idle", "waiting"}

\* idle threads are alike: of the idle ones, the first makes the next call
FirstIdle(t) == t = "t1" \/ pc["t1"] # "idle"

\* a caller starts a call of `m`: the log starts anew
StartCall(t, m, paths, arg, lf, line, first) ==
    /\ pc[t] = "idle"
    /\ FirstIdle(t)
    /\ caller' = t
    /\ method' = m
    /\ entry' = Snapshot(paths, lf)
    /\ log' = first
    /\ pc' = [pc EXCEPT ![t] = line]
    /\ lsession' = [lsession EXCEPT ![t] = arg]
    /\ load_files' = [load_files EXCEPT ![t] = lf]
    /\ UNCHANGED <<polled, regs, idx, waitOn>>

\* server.run_server(load_files=lf): no session given, line 117
CallRunServer(t, lf) ==
    /\ nconn < MaxConns
    /\ StartCall(t, "run_server", handler_paths, None, lf, "rs118", << >>)
    /\ UNCHANGED <<server, conns, nconn, cont>>
    /\ UNCHANGED package

\* server.run_server(session, load_files=lf) with a session the caller made,
\* as main() does at lines 177-184
CallRunServerWith(t, auto, connected, lf) ==
    /\ nconn < MaxConns
    /\ StartCall(t, "run_server", handler_paths, nconn + 1, lf, "rs118",
                 << >>)
    /\ conns' = [conns EXCEPT ![nconn + 1] = NewSession(auto, connected)]
    /\ nconn' = nconn + 1
    /\ UNCHANGED <<server, cont>>
    /\ UNCHANGED package

\* server.stop_session(), line 49
CallStopSession(t) ==
    /\ StartCall(t, "stop_session", handler_paths, None, TRUE, "ss50", << >>)
    /\ UNCHANGED <<server, conns, nconn, cont>>
    /\ UNCHANGED package

\* a set_handler_paths that stops whatever server is not stopped
SetHandlerPathsStoppingFirst(t, paths) ==
    /\ handler_paths' = paths
    /\ IF is_running \/ ~stopped
       THEN /\ StartCall(t, "set_handler_paths", paths, None, TRUE, "ss50",
                   << Event("stop_session", t, "", None, "", << >>) >>)
            /\ cont' = [cont EXCEPT ![t] = "run_server"]
       ELSE /\ StartCall(t, "set_handler_paths", paths, None, TRUE, "idle",
                   << >>)
            /\ UNCHANGED cont
    /\ UNCHANGED <<stopped, is_running, session, conns, nconn>>

\* set_handler_paths(paths), lines 108-115: the paths are stored, then the
\* server is stopped and started again when it is running, only started
\* when it is not stopped, and left alone otherwise
set_handler_paths(t, paths) ==
    /\ handler_paths' = paths
    /\ IF is_running
       THEN /\ StartCall(t, "set_handler_paths", paths, None, TRUE, "ss50",
                   << Event("stop_session", t, "", None, "", << >>) >>)
            /\ cont' = [cont EXCEPT ![t] = "run_server"]
       ELSE IF ~stopped
       THEN /\ StartCall(t, "set_handler_paths", paths, None, TRUE, "rs118",
                   << Event("run_server", t, "", None, "", << >>) >>)
            /\ UNCHANGED cont
       ELSE /\ StartCall(t, "set_handler_paths", paths, None, TRUE, "idle",
                   << >>)
            /\ UNCHANGED cont
    /\ UNCHANGED <<stopped, is_running, session, conns, nconn>>

CallSetHandlerPaths(t, paths) ==
    /\ (is_running \/ ~stopped) => nconn < MaxConns
    /\ set_handler_paths(t, paths)
    /\ UNCHANGED package

(***************************************************************************)
(* stop_session, lines 49-54.                                              *)
(***************************************************************************)
\* line 50
StopSessionMark(t) ==
    /\ pc[t] = "ss50"
    /\ stopped' = TRUE
    /\ Goto(t, "ss51")
    /\ UNCHANGED <<is_running, handler_paths, session, conns, nconn, cont,
                   locals, call, log>>
    /\ UNCHANGED package

\* lines 51-54 on a session: disconnect() when the hub is connected, close(),
\* which ends the session's link as well, and the handle is dropped
ReleaseSession(t) ==
    LET s == session
        disconnects == IF conns[s].connected = TRUE
                       THEN << Event("disconnect", t, "", s, "", << >>) >>
                       ELSE << >>
    IN  /\ session' = None
        /\ conns' = Settled([conns EXCEPT ![s] = [@ EXCEPT !.connected = FALSE,
                                                            !.connecting = FALSE,
                                                            !.closed = TRUE]],
                            None, lsession', waitOn')
        /\ log' = Did(disconnects
                      \o << Event("close", t, "", s, "", << >>) >>
                      \o (IF cont[t] = "run_server"
                          THEN << Event("run_server", t, "", None, "", << >>) >>
                          ELSE << >>))

\* a stop_session that does nothing without a session
StopSessionReleaseIfHeld(t) ==
    /\ pc[t] = "ss51"
    /\ IF HoldsSession(session)
       THEN /\ IF cont[t] = "run_server"
               THEN Goto(t, "rs118") /\ UNCHANGED locals
               ELSE Goto(t, "idle") /\ Forget(t)
            /\ ReleaseSession(t)
       ELSE /\ Return(t)
            /\ UNCHANGED session
    /\ cont' = [cont EXCEPT ![t] = "return"]
    /\ UNCHANGED <<stopped, is_running, handler_paths, nconn, call>>
    /\ UNCHANGED package

\* lines 51-54; `self.session.event_hub` raises AttributeError when the
\* attribute was never set or is None.  In set_handler_paths, line 112
\* follows: run_server()
StopSessionRelease(t) ==
    /\ pc[t] = "ss51"
    /\ IF HoldsSession(session)
       THEN /\ IF cont[t] = "run_server"
               THEN Goto(t, "rs118") /\ UNCHANGED locals
               ELSE Goto(t, "idle") /\ Forget(t)
            /\ ReleaseSession(t)
       ELSE /\ Raise(t, "AttributeError")
            /\ UNCHANGED session
    /\ cont' = [cont EXCEPT ![t] = "return"]
    /\ UNCHANGED <<stopped, is_running, handler_paths, nconn, call>>
    /\ UNCHANGED package

(***************************************************************************)
(* run_server, lines 117-158.                                              *)
(***************************************************************************)
\* line 118
RunServerMarkStarted(t) ==
    /\ pc[t] = "rs118"
    /\ stopped' = FALSE
    /\ Goto(t, "rs119")
    /\ UNCHANGED <<is_running, handler_paths, session, conns, nconn, cont,
                   locals, call, log>>
    /\ UNCHANGED package

\* lines 119-121: is_running is set, and without a session from the caller a
\* new one is made that connects its event hub in the background
RunServerMarkRunning(t) ==
    /\ pc[t] = "rs119"
    /\ is_running' = TRUE
    /\ IF lsession[t] = None
       THEN /\ nconn < MaxConns
            /\ conns' = [conns EXCEPT ![nconn + 1] = NewSession(TRUE, FALSE)]
            /\ nconn' = nconn + 1
            /\ lsession' = [lsession EXCEPT ![t] = nconn + 1]
       ELSE UNCHANGED <<conns, nconn, lsession>>
    /\ Goto(t, "rs124")
    /\ UNCHANGED <<stopped, handler_paths, session, cont, load_files, polled,
                   regs, idx, waitOn, call, log>>
    /\ UNCHANGED package

\* a polling loop that ends whether the hub is connected or not
RunServerPollEnds(t) ==
    /\ pc[t] = "rs124"
    /\ conns[lsession[t]].auto
    /\ Goto(t, "rs140")
    /\ UNCHANGED <<server, conns, nconn, cont, locals, call, log>>
    /\ UNCHANGED package

\* line 129 finds the hub of an auto-connecting session connected
RunServerPollConnected(t) ==
    /\ pc[t] = "rs124"
    /\ conns[lsession[t]].auto
    /\ conns[lsession[t]].connected
    /\ Goto(t, "rs140")
    /\ UNCHANGED <<server, conns, nconn, cont, locals, call, log>>
    /\ UNCHANGED package

\* lines 129-134: not connected and the timeout not reached, sleep
RunServerPollSleep(t) ==
    /\ pc[t] = "rs124"
    /\ conns[lsession[t]].auto
    /\ ~conns[lsession[t]].connected
    /\ ~polled[t]
    /\ polled' = [polled EXCEPT ![t] = TRUE]
    /\ UNCHANGED <<server, conns, nconn, pc, cont, lsession, load_files, regs,
                   idx, waitOn, call, log>>
    /\ UNCHANGED package

\* lines 129-133: not connected and the timeout passed, RuntimeError
RunServerPollTimeout(t) ==
    /\ pc[t] = "rs124"
    /\ conns[lsession[t]].auto
    /\ ~conns[lsession[t]].connected
    /\ Raise(t, "ConnectionTimeout")
    /\ UNCHANGED <<server, nconn, cont, call>>
    /\ UNCHANGED package

\* connect() without looking at event_hub.connected
RunServerConnectUnchecked(t) ==
    /\ pc[t] = "rs124"
    /\ ~conns[lsession[t]].auto
    /\ conns' = [conns EXCEPT ![lsession[t]].connected = TRUE]
    /\ log' = Did(<< Event("connect", t, "", lsession[t], "", << >>) >>)
    /\ Goto(t, "rs140")
    /\ UNCHANGED <<server, nconn, cont, locals, call>>
    /\ UNCHANGED package

\* lines 136-138: no background thread and the hub not connected, connect()
RunServerConnect(t) ==
    /\ pc[t] = "rs124"
    /\ ~conns[lsession[t]].auto
    /\ ~conns[lsession[t]].connected
    /\ conns' = [conns EXCEPT ![lsession[t]].connected = TRUE]
    /\ log' = Did(<< Event("connect", t, "", lsession[t], "", << >>) >>)
    /\ Goto(t, "rs140")
    /\ UNCHANGED <<server, nconn, cont, locals, call>>
    /\ UNCHANGED package

\* line 136 finds the hub connected: nothing to do
RunServerAlreadyConnected(t) ==
    /\ pc[t] = "rs124"
    /\ ~conns[lsession[t]].auto
    /\ conns[lsession[t]].connected
    /\ Goto(t, "rs140")
    /\ UNCHANGED <<server, conns, nconn, cont, locals, call, log>>
    /\ UNCHANGED package

\* line 140
RunServerKeepSession(t) ==
    /\ pc[t] = "rs140"
    /\ session' = lsession[t]
    /\ Goto(t, "rs141")
    /\ polled' = [polled EXCEPT ![t] = FALSE]
    /\ conns' = Settled(conns, lsession[t], lsession, waitOn)
    /\ UNCHANGED <<stopped, is_running, handler_paths, nconn, cont, lsession,
                   load_files, regs, idx, waitOn, call, log>>
    /\ UNCHANGED package

\* lines 141-148 without line 147
RunServerCheckPathsKeepsRunning(t) ==
    /\ pc[t] = "rs141"
    /\ IF load_files[t] /\ handler_paths = << >>
       THEN Return(t)
       ELSE /\ Goto(t, IF load_files[t] THEN "sf57" ELSE "rs157")
            /\ UNCHANGED <<conns, locals, log>>
    /\ UNCHANGED <<server, nconn, cont, call>>
    /\ UNCHANGED package

\* lines 141-148: with load_files and no handler paths the server gives up,
\* is_running is cleared and run_server returns
RunServerCheckPaths(t) ==
    /\ pc[t] = "rs141"
    /\ IF load_files[t] /\ handler_paths = << >>
       THEN /\ is_running' = FALSE
            /\ Return(t)
       ELSE /\ Goto(t, IF load_files[t] THEN "sf57" ELSE "rs157")
            /\ UNCHANGED <<is_running, conns, locals, log>>
    /\ UNCHANGED <<stopped, handler_paths, session, nconn, cont, call>>
    /\ UNCHANGED package

(***************************************************************************)
(* set_files, lines 56-106, called at line 150 with self.handler_paths.    *)
(***************************************************************************)
\* lines 57-97: every path is formatted and walked, the load failures are
\* logged and the register functions collected; a warning when there is none
SetFilesLoad(t) ==
    /\ pc[t] = "sf57"
    /\ LET found == LoadPaths(t, handler_paths)
           nothing == found.register_functions = << >>
       IN  /\ regs' = [regs EXCEPT ![t] = found.register_functions]
           /\ log' = Did(<< Event("set_files", t, "", None, "", handler_paths) >>
                         \o found.warnings
                         \o (IF nothing
                             THEN << Event("no_register_functions", t, "", None,
                                           "", << >>) >>
                             ELSE << >>))
           /\ Goto(t, IF nothing THEN "rs157" ELSE "sf99")
    /\ idx' = [idx EXCEPT ![t] = 1]
    /\ UNCHANGED <<server, conns, nconn, cont, lsession, load_files, polled,
                   waitOn, call>>
    /\ UNCHANGED package

\* a loop that ends at the first register function that raises
SetFilesRegisterUntilFailure(t) ==
    /\ pc[t] = "sf99"
    /\ \E out \in RegisterOutcomes :
         /\ log' = Did(<< Event("register", t, regs[t][idx[t]].filepath,
                                session, out, << >>) >>)
         /\ idx' = [idx EXCEPT ![t] = @ + 1]
         /\ Goto(t, IF idx[t] = Len(regs[t]) \/ out # "returns"
                    THEN "rs157" ELSE "sf99")
    /\ UNCHANGED <<server, conns, nconn, cont, lsession, load_files, polled,
                   regs, waitOn, call>>
    /\ UNCHANGED package

\* lines 99-106: the next register function is called with self.session; an
\* Exception it raises is logged, anything else it raises leaves set_files
\* and run_server
SetFilesRegister(t) ==
    /\ pc[t] = "sf99"
    /\ \E out \in RegisterOutcomes :
         LET called == Event("register", t, regs[t][idx[t]].filepath, session,
                             out, << >>)
         IN  IF out = "returns" \/ CaughtByRegisterLoop(out)
             THEN /\ log' = Did(<< called >>)
                  /\ idx' = [idx EXCEPT ![t] = @ + 1]
                  /\ Goto(t, IF idx[t] = Len(regs[t]) THEN "rs157" ELSE "sf99")
                  /\ UNCHANGED <<conns, lsession, load_files, polled, regs,
                                 waitOn>>
             ELSE /\ log' = Did(<< called,
                                   Event("raise", t, "", None, out, << >>) >>)
                  /\ Leave(t)
    /\ UNCHANGED <<server, nconn, cont, call>>
    /\ UNCHANGED package

(***************************************************************************)
(* The event-wait loop, lines 156-158.                                     *)
(***************************************************************************)
\* line 157: self.session.event_hub.wait() starts; AttributeError when
\* self.session is None by now
RunServerWait(t) ==
    /\ pc[t] = "rs157"
    /\ IF HoldsSession(session)
       THEN /\ waitOn' = [waitOn EXCEPT ![t] = session]
            /\ regs' = [regs EXCEPT ![t] = << >>]
            /\ idx' = [idx EXCEPT ![t] = 1]
            /\ log' = Did(<< Event("wait", t, "", session, "", << >>) >>)
            /\ Goto(t, "waiting")
            /\ lsession' = [lsession EXCEPT ![t] = None]
            /\ load_files' = [load_files EXCEPT ![t] = TRUE]
            /\ conns' = Settled(conns, session, lsession', waitOn')
            /\ UNCHANGED polled
       ELSE Raise(t, "AttributeError")
    /\ UNCHANGED <<server, nconn, cont, call>>
    /\ UNCHANGED package

\* wait() returns once the hub's link is gone: disconnected or closed by
\* stop_session, or lost
RunServerWaitReturns(t) ==
    /\ pc[t] = "waiting"
    /\ ~conns[waitOn[t]].connected
    /\ Goto(t, "rs158")
    /\ UNCHANGED <<server, conns, nconn, cont, locals, call, log>>
    /\ UNCHANGED package

\* a wait loop that starts the server again when wait() returns
RunServerStartAgain(t) ==
    /\ pc[t] = "rs158"
    /\ is_running' = FALSE
    /\ Goto(t, "rs118")
    /\ log' = Did(<< Event("return", t, "", None, "", << >>) >>)
    /\ UNCHANGED <<stopped, handler_paths, session, conns, nconn, cont, locals,
                   call>>
    /\ UNCHANGED package

\* line 158
RunServerClearRunning(t) ==
    /\ pc[t] = "rs158"
    /\ is_running' = FALSE
    /\ Leave(t)
    /\ log' = Did(<< Event("return", t, "", None, "", << >>) >>)
    /\ UNCHANGED <<stopped, handler_paths, session, nconn, cont, call>>
    /\ UNCHANGED package

(***************************************************************************)
(* The sessions' own life.                                                 *)
(***************************************************************************)
\* a session the server or a call in progress holds; what becomes of any
\* other session the server never sees
Referenced(c) ==
    \/ session = c
    \/ \E t \in Threads : lsession[t] = c \/ waitOn[t] = c

\* the background thread of an auto-connecting session connects its hub
HubAutoConnects(c) ==
    /\ Referenced(c)
    /\ conns[c].connecting
    /\ conns' = [conns EXCEPT ![c] = [@ EXCEPT !.connected = TRUE,
                                               !.connecting = FALSE]]
    /\ UNCHANGED <<server, nconn, pc, cont, locals, call, log>>
    /\ UNCHANGED package

\* the remote peer closes the link of a connected hub, or the link fails
HubLinkLost(c) ==
    /\ Referenced(c)
    /\ conns[c].connected
    /\ conns' = [conns EXCEPT ![c].connected = FALSE]
    /\ UNCHANGED <<server, nconn, pc, cont, locals, call, log>>
    /\ UNCHANGED package

(***************************************************************************)
(* The specification.                                                      *)
(***************************************************************************)
Call(t) ==
    \/ \E lf \in BOOLEAN : CallRunServer(t, lf)
    \/ \E auto, connected, lf \in BOOLEAN :
           CallRunServerWith(t, auto, connected, lf)
    \/ CallStopSession(t)
    \/ \E paths \in PathLists : CallSetHandlerPaths(t, paths)

Step(t) ==
    \/ StopSessionMark(t)
    \/ StopSessionRelease(t)
    \/ RunServerMarkStarted(t)
    \/ RunServerMarkRunning(t)
    \/ RunServerPollConnected(t)
    \/ RunServerPollSleep(t)
    \/ RunServerPollTimeout(t)
    \/ RunServerConnect(t)
    \/ RunServerAlreadyConnected(t)
    \/ RunServerKeepSession(t)
    \/ RunServerCheckPaths(t)
    \/ SetFilesLoad(t)
    \/ SetFilesRegister(t)
    \/ RunServerWait(t)
    \/ RunServerWaitReturns(t)
    \/ RunServerClearRunning(t)

Environment ==
    \E c \in ConnIds : HubAutoConnects(c) \/ HubLinkLost(c)

\* callers that serialize their calls
Next ==
    \/ \E t \in Threads : Serialized(t) /\ Call(t)
    \/ \E t \in Threads : Step(t)
    \/ Environment

Spec == Init /\ [][Next]_vars

\* run_server of thread u polls the event hub of its session, lines 124-134
Connecting(u) ==
    /\ pc[u] = "rs124"
    /\ conns[lsession[u]].auto
    /\ ~conns[lsession[u]].connected

\* stop_session() from another thread of control while a run_server is
\* waiting for its connection
CallStopSessionWhileConnecting(t) ==
    /\ \E u \in Threads \ {t} : Connecting(u)
    /\ CallStopSession(t)

\* callers that serialize their calls, but for a stop_session during the
\* connection wait
ConcNext ==
    \/ Next
    \/ \E t \in Threads : CallStopSessionWhileConnecting(t)

ConcSpec == Init /\ [][ConcNext]_vars

(***************************************************************************)
(* create_package.py: main(output_dir, skip_zip, keep_sources), lines      *)
(* 287-328, over the files of output_dir.  addon_output_root is            *)
(* output_dir/ftrack, addon_output_dir is output_dir/ftrack/1.0 and the    *)
(* server package is output_dir/ftrack-1.0.zip.                            *)
(***************************************************************************)
\* os.path.join(output_dir, f"{ADDON_NAME}-{addon_version}.zip"), line 258
ServerZip == "ftrack-1.0.zip"

\* what copy_server_content writes, lines 165-186: version.py, constants.py
\* and the files of server/
ServerContent ==
    {"ftrack/1.0/version.py", "ftrack/1.0/constants.py",
     "ftrack/1.0/__init__.py"}

\* what zip_client_side writes, lines 213-236
ClientContent ==
    {"ftrack/1.0/private/client.zip", "ftrack/1.0/private/pyproject.toml"}

\* files a package made earlier can have left under addon_output_root: of
\* another version, of this version but no more in the sources, and of this
\* version and still in the sources
LeftBehind ==
    {"ftrack/0.9/version.py", "ftrack/1.0/removed.py", "ftrack/1.0/version.py"}

\* the files under addon_output_root
RootFiles == ServerContent \cup ClientContent \cup LeftBehind

PackageFiles == RootFiles \cup {ServerZip}

\* shutil.rmtree(addon_output_root), lines 308 and 327
rmtree(files) ==
    [p \in PackageFiles |-> IF p \in RootFiles THEN "none" ELSE files[p]]

\* `content` written as "new" over whatever is there
Written(files, content) ==
    [p \in PackageFiles |-> IF p \in content THEN "new" ELSE files[p]]

\* main() is called, lines 287-303: the arguments, whether the repository
\* has a client directory, and output_dir as an earlier run can have left
\* it: with or without addon_output_root and any of its files, with or
\* without a server package
PackageStarts ==
    {[line |-> "m306", skip_zip |-> sz, keep_sources |-> ks, client |-> cl,
      root |-> r, had_root |-> r,
      files |-> [p \in PackageFiles |->
                    IF (p \in old /\ r) \/ (p = ServerZip /\ oz)
                    THEN "old" ELSE "none"],
      zipped |-> {}] :
        sz \in BOOLEAN, ks \in BOOLEAN, cl \in BOOLEAN, r \in BOOLEAN,
        oz \in BOOLEAN, old \in SUBSET LeftBehind}

PackageInit ==
    /\ stopped = TRUE
    /\ is_running = FALSE
    /\ handler_paths = << >>
    /\ session = Unset
    /\ conns = [c \in ConnIds |-> NoSession]
    /\ nconn = 0
    /\ pc = [t \in Threads |-> "idle"]
    /\ cont = [t \in Threads |-> "return"]
    /\ lsession = [t \in Threads |-> None]
    /\ load_files = [t \in Threads |-> TRUE]
    /\ polled = [t \in Threads |-> FALSE]
    /\ regs = [t \in Threads |-> << >>]
    /\ idx = [t \in Threads |-> 1]
    /\ waitOn = [t \in Threads |-> None]
    /\ caller = "none"
    /\ method = "none"
    /\ entry = [stopped |-> TRUE, is_running |-> FALSE, paths |-> << >>,
                load_files |-> TRUE]
    /\ log = << >>
    /\ package \in PackageStarts

\* no FtrackServer is touched by create_package.py
ftrack == <<stopped, is_running, handler_paths, session, conns, nconn, pc,
            cont, lsession, load_files, polled, regs, idx, waitOn, caller,
            method, entry, log>>

\* main() that keeps what it finds under addon_output_root
MainKeepOutputRoot ==
    /\ package.line = "m306"
    /\ package' = [package EXCEPT !.line = "m312"]
    /\ UNCHANGED ftrack

\* lines 305-308: an addon_output_root that is a directory is removed
MainPurge ==
    /\ package.line = "m306"
    /\ package' = IF package.root
                  THEN [package EXCEPT !.line = "m312", !.root = FALSE,
                                       !.files = rmtree(@)]
                  ELSE [package EXCEPT !.line = "m312"]
    /\ UNCHANGED ftrack

\* lines 311-313: os.makedirs(addon_output_dir) unless it exists
MainMakeDirs ==
    /\ package.line = "m312"
    /\ package' = [package EXCEPT !.line = "m315", !.root = TRUE]
    /\ UNCHANGED ftrack

\* line 315, lines 150-186
copy_server_content ==
    /\ package.line = "m315"
    /\ package' = [package EXCEPT !.line = "m317",
                                  !.files = Written(@, ServerContent)]
    /\ UNCHANGED ftrack

\* line 317, lines 190-236: nothing without a client directory
zip_client_side ==
    /\ package.line = "m317"
    /\ package' = IF package.client
                  THEN [package EXCEPT !.line = "m320",
                                       !.files = Written(@, ClientContent)]
                  ELSE [package EXCEPT !.line = "m320"]
    /\ UNCHANGED ftrack

\* line 320 with skip_zip: main is done, line 328
MainSkipZip ==
    /\ package.line = "m320"
    /\ package.skip_zip
    /\ package' = [package EXCEPT !.line = "done"]
    /\ UNCHANGED ftrack

\* lines 320-323, lines 239-284: the zip is written anew in output_dir with
\* the files found under addon_output_dir
create_server_package ==
    /\ package.line = "m320"
    /\ ~package.skip_zip
    /\ package' = [package EXCEPT
                       !.line = "m325",
                       !.files = Written(@, {ServerZip}),
                       !.zipped = {p \in RootFiles : package.files[p] # "none"}]
    /\ UNCHANGED ftrack

\* line 325 with keep_sources: main is done, line 328
MainKeepSources ==
    /\ package.line = "m325"
    /\ package.keep_sources
    /\ package' = [package EXCEPT !.line = "done"]
    /\ UNCHANGED ftrack

\* lines 325-327: the sources of the package are removed
MainRemoveSources ==
    /\ package.line = "m325"
    /\ ~package.keep_sources
    /\ package' = [package EXCEPT !.line = "done", !.root = FALSE,
                                  !.files = rmtree(@)]
    /\ UNCHANGED ftrack

PackageNext ==
    \/ MainPurge
    \/ MainMakeDirs
    \/ copy_server_content
    \/ zip_client_side
    \/ MainSkipZip
    \/ create_server_package
    \/ MainKeepSources
    \/ MainRemoveSources

PackageSpec == PackageInit /\ [][PackageNext]_vars

(***************************************************************************)
(* Reading the log of the latest call.                                     *)
(***************************************************************************)
Has(ev) == \E i \in DOMAIN log : log[i].ev = ev

RaisedWith(e) == \E i \in DOMAIN log : log[i].ev = "raise" /\ log[i].out = e

Raised == Has("raise")

Events(evs) == SelectSeq(log, LAMBDA e : e.ev \in evs)

Names(events) == [i \in DOMAIN events |-> events[i].ev]

\* no call is in progress, no thread blocks in the wait loop
Quiet == \A t \in Threads : pc[t] = "idle"

\* the latest call is over: it returned, raised, or blocks in the wait loop
CallOver == caller \in Threads /\ pc[caller] \in {"idle", "waiting"}

(***************************************************************************)
(* C1: a run_server whose auto-connecting session does not connect before  *)
(* the timeout fails with the connection-timeout error, loads and          *)
(* registers nothing, never waits for events, and is_running is not true   *)
(* once it has failed.                                                     *)
(***************************************************************************)
C1_TimeoutLeavesNotRunning ==
    (method = "run_server" /\ RaisedWith("ConnectionTimeout") /\ Quiet)
    => /\ ~is_running
       /\ ~Has("set_files") /\ ~Has("register") /\ ~Has("wait")

(***************************************************************************)
(* C2: set_handler_paths(newPaths) on a running server makes exactly one   *)
(* stop_session (the old session disconnected if connected, closed,        *)
(* released) and then exactly one run_server, whose load pass reads        *)
(* newPaths only and registers against the new session.                    *)
(***************************************************************************)
C2_RestartWithNewPaths ==
    (method = "set_handler_paths" /\ entry.is_running /\ CallOver)
    => /\ Names(Events({"stop_session", "run_server"}))
              = << "stop_session", "run_server" >>
       /\ Len(Events({"close"})) = 1
       /\ \A i \in DOMAIN log :
              /\ log[i].ev = "set_files" => log[i].paths = entry.paths
              /\ log[i].ev = "register" =>
                     /\ log[i].conn = session
                     /\ \E k \in DOMAIN entry.paths :
                            \E j \in DOMAIN FilesUnder(ResolvePath(entry.paths[k])) :
                                FilesUnder(ResolvePath(entry.paths[k]))[j]
                                    = log[i].file

(***************************************************************************)
(* C6: between calls the server holds a session exactly when it is         *)
(* Connecting or Running, that is when is_running is set or stopped is     *)
(* not.                                                                    *)
(***************************************************************************)
C6_SessionIffNotStopped ==
    Quiet => (HoldsSession(session) <=> (is_running \/ ~stopped))

(***************************************************************************)
(* C7: after a stop_session on a server that holds a session, stopped is   *)
(* true, is_running is not, the session was closed and self.session is     *)
(* None.                                                                   *)
(***************************************************************************)
C7_StopLeavesStopped ==
    (method = "stop_session" /\ pc[caller] = "idle" /\ ~Raised)
    => /\ stopped /\ ~is_running
       /\ session = None
       /\ Len(Events({"close"})) = 1

(***************************************************************************)
(* C10: set_handler_paths(newPaths) on a server whose stopped flag is set  *)
(* stores the paths and does nothing else: no stop_session, no run_server, *)
(* no exception.                                                           *)
(***************************************************************************)
C10_StoppedOnlyStoresPaths ==
    (method = "set_handler_paths" /\ entry.stopped)
    => /\ handler_paths = entry.paths
       /\ ~Has("stop_session") /\ ~Has("run_server") /\ ~Raised
       /\ pc[caller] = "idle"

(***************************************************************************)
(* C8: run_server(load_files=True) with no handler paths returns without   *)
(* raising, runs no load or registration pass, never waits for events, and *)
(* is_running is false when it returns.                                    *)
(***************************************************************************)
NoPathsCallOver ==
    /\ method = "run_server" /\ entry.load_files /\ entry.paths = << >>
    /\ pc[caller] = "idle"

GaveUpQuietly ==
    /\ ~Raised
    /\ ~Has("set_files") /\ ~Has("register") /\ ~Has("wait")
    /\ ~is_running

\* C8 as claimed: it returns normally whatever the connection does
C8_NoPathsReturnsNormally == NoPathsCallOver => GaveUpQuietly

\* C8 as amended: it returns normally unless the connection timed out,
\* which raises before the paths are looked at
C8_NoPathsReturnsNormallyOnceConnected ==
    (NoPathsCallOver /\ ~RaisedWith("ConnectionTimeout")) => GaveUpQuietly

\* C8, the case: a call that connected, found no paths and returned
C8_GaveUpWithSession ==
    NoPathsCallOver /\ ~Raised /\ HoldsSession(session)
    /\ conns[session].connected

(***************************************************************************)
(* C9: run_server calls event_hub.connect() exactly when the session has   *)
(* no auto-connect thread and its hub is not connected; it sleeps in the   *)
(* polling loop only for an unconnected auto-connecting session; and with  *)
(* the hub already connected it goes on to line 140 with neither.          *)
(***************************************************************************)
ConnectIssued(t) ==
    /\ Len(log') = Len(log) + 1
    /\ log'[Len(log')] = Event("connect", t, "", lsession[t], "", << >>)
    /\ conns'[lsession[t]].connected

\* C9: connect() exactly for an unconnected session without auto-connect
\* thread, a sleep only for an unconnected auto-connecting one, neither for
\* a connected one
C9_ConnectExactlyWhenNeeded ==
    [][\A t \in Threads :
          /\ (polled'[t] /\ ~polled[t]) =>
                 (conns[lsession[t]].auto /\ ~conns[lsession[t]].connected)
          /\ (pc[t] = "rs124" /\ pc'[t] # "rs124") =>
                 /\ ConnectIssued(t) <=>
                        (~conns[lsession[t]].auto
                         /\ ~conns[lsession[t]].connected)
                 /\ conns[lsession[t]].connected =>
                        (pc'[t] = "rs140" /\ log' = log /\ conns' = conns)
      ]_vars

\* C9, the case: run_server connected the caller's session itself
C9_ConnectedByRunServer ==
    \E t \in Threads :
        /\ pc[t] = "rs140" /\ caller = t /\ method = "run_server"
        /\ ~conns[lsession[t]].auto
        /\ Events({"connect"})
               = << Event("connect", t, "", lsession[t], "", << >>) >>

(***************************************************************************)
(* C3: set_files calls every register function once, in discovery order,   *)
(* with the server's session; a register that raises stops no later one    *)
(* and nothing it raises leaves set_files.                                 *)
(***************************************************************************)
RegisterCalls == Events({"register"})

\* the loop of line 99 so far: one call per function, in order, on the
\* session; past the loop, one call for every function
InDiscoveryOrder(t) ==
    /\ Len(RegisterCalls) = idx[t] - 1
    /\ \A i \in DOMAIN RegisterCalls :
           /\ RegisterCalls[i].file = regs[t][i].filepath
           /\ RegisterCalls[i].conn = session
           /\ RegisterCalls[i].conn = lsession[t]
    /\ pc[t] = "rs157" => Len(RegisterCalls) = Len(regs[t])

RegisterLoopInOrder ==
    \A t \in Threads :
        (caller = t /\ pc[t] \in {"sf99", "rs157"}) => InDiscoveryOrder(t)

Range(f) == {f[i] : i \in DOMAIN f}

PluginFiles == UNION {Range(FilesUnder(ResolvePath(p))) : p \in PathTemplates}

\* how many entries of `paths` hold file f
Occurrences(f, paths) ==
    Cardinality({k \in DOMAIN paths : f \in Range(FilesUnder(ResolvePath(paths[k])))})

Handed(t, f) == Cardinality({i \in DOMAIN regs[t] : regs[t][i].filepath = f})

Warned(ev, f) ==
    Cardinality({i \in DOMAIN log : log[i].ev = ev /\ log[i].file = f})

\* thread t is just past the loop over paths
Loaded(t) == caller = t /\ pc[t] \in {"sf99", "rs157"} /\ Has("set_files")

\* the pass of thread t, when file f counts `times` for each kind it can be
LoadPassCounts(t, f, times) ==
    /\ Handed(t, f) = IF FileKind(f) = "function" THEN times ELSE 0
    /\ Warned("load_crashed", f) = IF FileKind(f) = "crash" THEN times ELSE 0
    /\ Warned("missing_register", f)
           = IF FileKind(f) \in {"none", "not_function"} THEN times ELSE 0

OwnPath(t) == \A i \in DOMAIN regs[t] : regs[t][i].func = regs[t][i].filepath

\* C4 as claimed: each file of the listed paths counts once
C4_LoadPassOncePerFile ==
    \A t \in Threads :
        Loaded(t) =>
            /\ OwnPath(t)
            /\ \A f \in PluginFiles :
                   LoadPassCounts(t, f,
                       IF Occurrences(f, handler_paths) > 0 THEN 1 ELSE 0)

\* C4 as amended: each file counts once for every listed path that holds it
C4_LoadPassOncePerListedPath ==
    \A t \in Threads :
        Loaded(t) =>
            /\ OwnPath(t)
            /\ \A f \in PluginFiles :
                   LoadPassCounts(t, f, Occurrences(f, handler_paths))

\* C4, the case: a pass with a crashed file, a module without register and
\* two usable ones
C4_MixedLoadPass ==
    \E t \in Threads :
        /\ Loaded(t) /\ pc[t] = "sf99"
        /\ Len(regs[t]) = 2
        /\ Has("load_crashed") /\ Has("missing_register")

(***************************************************************************)
(* C5: with handler paths and the connection made, run_server(load_files)  *)
(* gets to the event-wait loop whatever the plugins do, and only the       *)
(* connection timeout makes run_server raise.                              *)
(***************************************************************************)
LoadingCallEnded ==
    /\ method = "run_server" /\ entry.load_files /\ entry.paths # << >>
    /\ pc[caller] = "idle"

WalkedFor(template) ==
    CASE template = "{ROOT}/b"  -> "/srv/b"
      [] template = "{UNSET}/c" -> "{UNSET}/c"
      [] OTHER                  -> template

Walks == Events({"modules_from_path"})

\* C11: the load pass walks one path per template, in order, the template
\* itself when it does not resolve; nothing is raised; and the register
\* functions under every walked path are collected
C11_UnresolvedTemplateUsedRaw ==
    \A t \in Threads :
        Loaded(t) =>
            LET paths == Events({"set_files"})[1].paths
            IN  /\ Len(Walks) = Len(paths)
                /\ \A k \in DOMAIN paths :
                       /\ Walks[k].file = WalkedFor(paths[k])
                       /\ \A f \in Range(FilesUnder(WalkedFor(paths[k]))) :
                              FileKind(f) = "function" => Handed(t, f) >= 1
                /\ ~Raised

\* C11, the case: an unresolvable template first, a resolvable one after it,
\* whose register function was collected
C11_LoadedPastUnresolvedTemplate ==
    \E t \in Threads :
        /\ Loaded(t)
        /\ Events({"set_files"})[1].paths = << "{UNSET}/c", "{ROOT}/b" >>
        /\ Handed(t, "/srv/b/event.py") = 1

(***************************************************************************)
(* C12: main() removes an addon_output_root it finds before it writes, so  *)
(* that no file of an earlier package is left under it; it writes the      *)
(* server zip exactly when skip_zip is false; it removes the sources it    *)
(* built only when it wrote the zip and keep_sources is false; and         *)
(* removing them leaves the zip.                                           *)
(***************************************************************************)
SourcesBuilt ==
    /\ package.root
    /\ \A p \in ServerContent : package.files[p] = "new"
    /\ \A p \in ClientContent :
           package.files[p] = IF package.client THEN "new" ELSE "none"

SourcesRemoved ==
    /\ ~package.root
    /\ \A p \in RootFiles : package.files[p] = "none"

DoneByOther(evs) ==
    \E i \in DOMAIN log : log[i].ev \in evs /\ log[i].t # caller

\* C13: once a stop_session is over, a run_server that was under way in
\* another thread is not past its connection wait, and since the stop it
\* made no load pass, no register call and no wait
C13_StopCancelsStartup ==
    (method = "stop_session" /\ pc[caller] = "idle") =>
        /\ ~DoneByOther({"set_files", "register", "wait"})
        /\ \A u \in Threads \ {caller} :
               pc[u] \notin {"rs140", "rs141", "sf57", "sf99", "rs157"}

(***************************************************************************)
(* C14: when event_hub.wait() returns, run_server clears is_running and    *)
(* returns, and the server then does nothing by itself: no connect, load,  *)
(* registration or wait until a caller calls again.                        *)
(***************************************************************************)
Returned(t) ==
    /\ log' = Did(<< Event("return", t, "", None, "", << >>) >>)
    /\ pc'[t] = "idle"
    /\ ~is_running'
    /\ UNCHANGED <<stopped, handler_paths, session, nconn>>

\* a caller starts a call in thread t
Called(t) ==
    /\ caller' = t
    /\ method' \in {"run_server", "stop_session", "set_handler_paths"}
    /\ Len(log') <= 1

\* C14: a thread leaves the wait only when the hub's link is gone, then
\* clears is_running and returns; an idle thread moves only when a caller
\* calls; and while every thread is idle the server makes no session,
\* changes neither flag and logs nothing
C14_WaitReturnsAndStaysDown ==
    [][/\ \A t \in Threads :
            /\ (pc[t] = "waiting" /\ pc'[t] # "waiting") =>
                   /\ pc'[t] = "rs158"
                   /\ ~conns[waitOn[t]].connected
                   /\ UNCHANGED <<server, nconn, log>>
            /\ (pc[t] = "rs158" /\ pc'[t] # "rs158") => Returned(t)
            /\ (pc[t] = "idle" /\ pc'[t] # "idle") => Called(t)
       /\ (Quiet /\ Quiet') =>
              /\ UNCHANGED <<stopped, is_running, session, nconn>>
              /\ log' = log \/ (log' = << >> /\ Called(caller'))
      ]_vars

\* C14, the case: a run_server that waited has returned because the link of
\* its hub was lost, and no call was made since
C14_ReturnedFromWait ==
    /\ method = "run_server" /\ Quiet
    /\ Has("wait")
    /\ log[Len(log)] = Event("return", caller, "", None, "", << >>)
    /\ ~is_running

(***************************************************************************)
(* C15: set_handler_paths on a server that is neither stopped nor running  *)
(* stores the paths and calls run_server once, without stop_session.       *)
(***************************************************************************)
StartedAgain ==
    method = "set_handler_paths" /\ ~entry.stopped /\ ~entry.is_running

\* C15: the paths are stored, run_server is the first and only thing
\* called, nothing is disconnected or closed, and the load pass of that
\* run_server reads the new paths
C15_StartsWithoutStopping ==
    StartedAgain =>
        /\ handler_paths = entry.paths
        /\ Names(Events({"stop_session", "run_server"})) = << "run_server" >>
        /\ log[1] = Event("run_server", caller, "", None, "", << >>)
        /\ ~Has("disconnect") /\ ~Has("close")
        /\ ~RaisedWith("AttributeError")
        /\ \A i \in DOMAIN log :
               log[i].ev = "set_files" => log[i].paths = entry.paths

\* C15, the case: the server had given up for lack of paths or its wait
\* had returned; with the new paths it registered handlers and waits
C15_StartedAgainAndWaits ==
    /\ StartedAgain
    /\ pc[caller] = "waiting"
    /\ Has("register")

(***************************************************************************)
(* C16: the phases of one run_server follow each other: the connection,    *)
(* then the load of every path, then every register function in discovery  *)
(* order, then the wait.                                                   *)
(***************************************************************************)
\* the files with a register function under the paths, path by path and in
\* the order of the walk
RECURSIVE DiscoveryOrder(_)
DiscoveryOrder(paths) ==
    IF paths = << >> THEN << >>
    ELSE SelectSeq(FilesUnder(WalkedFor(Head(paths))),
                   LAMBDA f : FileKind(f) = "function")
         \o DiscoveryOrder(Tail(paths))

FilesOf(events) == [i \in DOMAIN events |-> events[i].file]

IsPrefix(s, r) == Len(s) <= Len(r) /\ s = SubSeq(r, 1, Len(s))

Positions(ev) == {i \in DOMAIN log : log[i].ev = ev}

\* the log of a call: every walk comes before every register call and
\* every register call before the wait; the register calls follow the
\* discovery order, on the session the server holds, and all of them are
\* made when the wait starts
PhasesInOrder ==
    /\ \A r \in Positions("register") :
           /\ \E s \in Positions("set_files") : s < r
           /\ Len(Walks) = Len(Events({"set_files"})[1].paths)
           /\ \A w \in Positions("modules_from_path") : w < r
           /\ \A w \in Positions("wait") : r < w
           /\ HoldsSession(log[r].conn)
    /\ Has("set_files") =>
           LET order == DiscoveryOrder(Events({"set_files"})[1].paths)
           IN  /\ IsPrefix(FilesOf(RegisterCalls), order)
               /\ (Has("wait") /\ ~Raised) => FilesOf(RegisterCalls) = order

\* C16: run_server gets past its connection phase only with the hub
\* connected, keeps that session before it loads, logs a register call only
\* from the registration loop and a wait only past it, and the log of the
\* call has the phases in order
C16_PhasesInOrder ==
    [][/\ PhasesInOrder'
       /\ \A t \in Threads :
            /\ (pc[t] = "rs124" /\ pc'[t] # "rs124" /\ pc'[t] # "idle") =>
                   /\ pc'[t] = "rs140"
                   /\ conns'[lsession[t]].connected
            /\ pc'[t] \in {"rs141", "sf57", "sf99"} =>
                   (session' = lsession'[t] /\ HoldsSession(session'))
            /\ (pc[t] # "sf99" /\ pc'[t] = "sf99") => pc[t] = "sf57"
            /\ (pc[t] # "sf57" /\ pc'[t] = "sf57") => pc[t] = "rs141"
            /\ (pc[t] # "rs141" /\ pc'[t] = "rs141") => pc[t] = "rs140"
            /\ (pc[t] # "waiting" /\ pc'[t] = "waiting") => pc[t] = "rs157"
       /\ Len(RegisterCalls') > Len(RegisterCalls) =>
              \E t \in Threads : pc[t] = "sf99" /\ caller = t
      ]_vars

\* C16, the case: two paths, a register function under each, both called
\* in the order of the paths, and the server waits
C16_RegisteredThenWaits ==
    /\ method = "run_server"
    /\ pc[caller] = "waiting"
    /\ FilesOf(RegisterCalls) = << "/srv/b/event.py", "/srv/a/action.py" >>
    /\ log[Len(log)].ev = "wait"

(***************************************************************************)
(* C17: stop_session on a server that holds no session raises, calls       *)
(* disconnect and close on nothing, and leaves the server stopped and      *)
(* without session.                                                        *)
(***************************************************************************)
\* the latest call was a stop_session that is over and closed nothing
StoppedNothing ==
    method = "stop_session" /\ pc[caller] = "idle" /\ ~Has("close")

\* C17: stop_session at line 51 without a session raises AttributeError,
\* touches no session and leaves self.session as it is; and a stop_session
\* that is over and closed nothing raised, disconnected nothing, and the
\* server is stopped and holds no session
C17_StopWithoutSessionRaises ==
    [][/\ \A t \in Threads :
            (pc[t] = "ss51" /\ pc'[t] # "ss51" /\ ~HoldsSession(session)) =>
                /\ log' = Did(<< Event("raise", t, "", None, "AttributeError",
                                       << >>) >>)
                /\ pc'[t] = "idle"
                /\ UNCHANGED <<server, nconn>>
                /\ \A c \in ConnIds : conns'[c].closed = conns[c].closed
       /\ StoppedNothing' =>
              /\ RaisedWith("AttributeError")'
              /\ ~Has("disconnect")'
              /\ stopped'
              /\ ~HoldsSession(session')
      ]_vars

\* C17, the case: a second stop_session on a server an earlier one stopped
C17_StoppedTwice ==
    /\ StoppedNothing
    /\ entry.stopped
    /\ session = None
    /\ RaisedWith("AttributeError")

(***************************************************************************)
(* C18: when run_server installs a session as self.session, every session  *)
(* the server held before is disconnected and closed: the server leaves    *)
(* no session open behind it.                                              *)
(***************************************************************************)
\* C18: a run_server about to assign self.session at line 140 finds no
\* session there or one that is closed and not connected
C18_InstallsOverClosedOnly ==
    \A t \in Threads :
        (pc[t] = "rs140" /\ HoldsSession(session)) =>
            /\ conns[session].closed
            /\ ~conns[session].connected

(***************************************************************************)
(* C19: while a run_server blocks in event_hub.wait(), is_running is true. *)
(***************************************************************************)
\* thread t is in wait() on a hub whose link is up
Blocked(t) == pc[t] = "waiting" /\ conns[waitOn[t]].connected

\* C19: is_running is set whenever some thread blocks in the wait loop
C19_RunningWhileWaiting ==
    (\E t \in Threads : Blocked(t)) => is_running

(***************************************************************************)
(* C20: stopped and is_running are never both true.                        *)
(***************************************************************************)
\* C20: the two flags name one state: not stopped and running at once
C20_FlagsExclusive == ~(stopped /\ is_running)

=============================================================================
